---- MODULE Spec2Model ----
(***************************************************************************)
(* A model of mp42mcap's bitstream core (src/src/codec.rs) and of the      *)
(* packet loop that drives it (src/src/main.rs):                           *)
(*   - convert_to_annex_b, the length-prefixed -> Annex-B converter,       *)
(*     stepped one loop iteration at a time (specification SpecConv, and   *)
(*     SpecConvFair for its termination);                                  *)
(*   - ParameterSets::parse (parse_avcc / parse_hvcc), applied to encoded  *)
(*     configuration records and their truncations (SpecParse);            *)
(*   - the VideoConverter session: process_packet and take_frame_data      *)
(*     (Spec), check_timestamp and update_progress (SpecTime);             *)
(*   - ParameterSets::validate and should_skip_nal, each applied once to   *)
(*     arguments drawn from bounded sets (SpecFn);                         *)
(*   - main's loop over the packets of the video stream (SpecMain).        *)
(* Bytes are naturals in 0..255, byte strings are sequences, and a Rust    *)
(* slice index i is the sequence index i + 1.                              *)
(***************************************************************************)
EXTENDS Integers, Sequences, FiniteSets, TLC

VARIABLES
    \* convert_to_annex_b: the access unit described (au), then the function's
    \* arguments, its locals, the indices read in the last pass, and where it stands
    au, data, codec, pos, converted, reads, cpc,
    \* ParameterSets::parse: the record described, its bytes, the profile, the result
    desc, extradata, pcodec, presult, ppc,
    \* VideoConverter: the fields of the session and the last call made on it
    codec_type, parameter_sets, frame_packets, last_timestamp, last_progress,
    \* the timestamp of the last check_timestamp that succeeded, if any (history)
    accepted, call,
    \* whether the build checks integer overflow (on in the dev profile, off in
    \* the release profile)
    overflow_checks,
    \* the last call of an associated function that takes no session: its
    \* arguments and what it returned
    fcall,
    \* main: the stream's configuration, the locals of the packet loop, where it
    \* stands, and its last pass
    codec_format, sps_nals, pps_nals, time_base, main_frame_packets, first_frame,
    sequence, mpc, iter,
    \* the messages written so far, the contributions pushed so far and the
    \* packets read so far (history)
    written, pushed, nread

convVars == <<au, data, codec, pos, converted, reads, cpc>>
parseVars == <<desc, extradata, pcodec, presult, ppc>>
sessionVars ==
    <<codec_type, parameter_sets, frame_packets, last_timestamp, last_progress,
      accepted, call, overflow_checks>>
fnVars == <<fcall>>
mainVars ==
    <<codec_format, sps_nals, pps_nals, time_base, main_frame_packets, first_frame,
      sequence, mpc, iter, written, pushed, nread>>
vars == <<convVars, parseVars, sessionVars, fnVars, mainVars>>

----------------------------------------------------------------------------
(* Byte strings *)

START_CODE == <<0, 0, 0, 1>>

\* &data[from..to] (Rust's half-open range, 0-based)
Slice(s, from, to) == SubSeq(s, from + 1, to)

\* ((hi as usize) << 8) | (lo as usize)
BE16(hi, lo) == hi * 256 + lo

\* u32::from_be_bytes([b0, b1, b2, b3]) as usize
BE32(b0, b1, b2, b3) == ((b0 * 256 + b1) * 256 + b2) * 256 + b3

RECURSIVE Flatten(_)
Flatten(ss) == IF ss = <<>> THEN <<>> ELSE Head(ss) \o Flatten(Tail(ss))

\* all the sequences over S of length at most n
SeqsUpTo(S, n) == UNION {[1..k -> S] : k \in 0..n}

----------------------------------------------------------------------------
(* CodecType *)

CodecType == {"H264", "H265"}

H264_NAL_SPS == 7
H264_NAL_PPS == 8
H264_NAL_SEI == 6
H265_NAL_VPS == 32
H265_NAL_SPS == 33
H265_NAL_PPS == 34
H265_NAL_SEI == 39

\* a plausible slip: SEI is not on the H264 list
should_skip_nal_no_sei(c, nal_type) ==
    IF c = "H264"
    THEN nal_type \in {H264_NAL_SPS, H264_NAL_PPS}
    ELSE nal_type \in {H265_NAL_VPS, H265_NAL_SPS, H265_NAL_PPS, H265_NAL_SEI}

should_skip_nal(c, nal_type) ==
    IF c = "H264"
    THEN nal_type \in {H264_NAL_SPS, H264_NAL_PPS, H264_NAL_SEI}
    ELSE nal_type \in {H265_NAL_VPS, H265_NAL_SPS, H265_NAL_PPS, H265_NAL_SEI}

\* the NAL type in a NAL header byte: b & 0x1F, or (b >> 1) & 0x3F
NalTypeOf(c, b) == IF c = "H264" THEN b % 32 ELSE (b \div 2) % 64

----------------------------------------------------------------------------
(* convert_to_annex_b *)

\* One pass through the body of the while loop, entered with pos < data.len():
\* the new cursor, the new output, whether the loop is left by a break, and
\* the indices of data that were read.
\* a slip: the NAL-type byte is read without asking whether it is there
ConvBody_type_unguarded(d, c, p, out) ==
    IF p + 4 > Len(d)
    THEN [pos |-> p, converted |-> out, stop |-> TRUE, reads |-> {}]
    ELSE
        LET nal_size == BE32(d[p + 1], d[p + 2], d[p + 3], d[p + 4])
            nal_type == IF p + 4 < Len(d) THEN NalTypeOf(c, d[p + 5]) ELSE 0
            p4 == p + 4
            fits == p4 + nal_size <= Len(d)
            keep == ~should_skip_nal(c, nal_type)
            out1 == IF keep THEN out \o START_CODE ELSE out
            out2 == IF keep /\ fits THEN out1 \o Slice(d, p4, p4 + nal_size) ELSE out1
            body == IF keep /\ fits THEN p4 .. (p4 + nal_size - 1) ELSE {}
        IN  [pos |-> IF fits THEN p4 + nal_size ELSE p4,
             converted |-> out2,
             stop |-> ~fits,
             reads |-> (p .. p + 4) \cup body]

ConvBody(d, c, p, out) ==
    IF p + 4 > Len(d)
    THEN [pos |-> p, converted |-> out, stop |-> TRUE, reads |-> {}]
    ELSE
        LET nal_size == BE32(d[p + 1], d[p + 2], d[p + 3], d[p + 4])
            nal_type == IF p + 4 < Len(d) THEN NalTypeOf(c, d[p + 5]) ELSE 0
            hdr == (p .. p + 3) \cup (IF p + 4 < Len(d) THEN {p + 4} ELSE {})
            p4 == p + 4
            fits == p4 + nal_size <= Len(d)
            keep == ~should_skip_nal(c, nal_type)
            out1 == IF keep THEN out \o START_CODE ELSE out
            out2 == IF keep /\ fits THEN out1 \o Slice(d, p4, p4 + nal_size) ELSE out1
            body == IF keep /\ fits THEN p4 .. (p4 + nal_size - 1) ELSE {}
        IN  [pos |-> IF fits THEN p4 + nal_size ELSE p4,
             converted |-> out2,
             stop |-> ~fits,
             reads |-> hdr \cup body]

RECURSIVE ConvLoop(_, _, _, _)
ConvLoop(d, c, p, out) ==
    IF ~(p < Len(d)) THEN out
    ELSE LET r == ConvBody(d, c, p, out)
         IN  IF r.stop THEN r.converted ELSE ConvLoop(d, c, r.pos, r.converted)

convert_to_annex_b(d, c) == ConvLoop(d, c, 0, <<>>)

----------------------------------------------------------------------------
(* ParameterSets::parse *)

AVCC_HEADER_SIZE == 5
HVCC_HEADER_SIZE == 22

\* extradata[i]: Rust checks the index, and a read past the end panics. The
\* read is recorded (Reads) and the value of a read that panics is never used.
Rd(d, i) == IF i < Len(d) THEN d[i + 1] ELSE 0

Err(msg) == [kind |-> "err", msg |-> msg]
Ok(v, s, p) == [kind |-> "ok", vps |-> v, sps |-> s, pps |-> p]
Panic == [kind |-> "panic"]

\* the result of a run that read the indices rs of d
Checked(d, rs, result) ==
    IF \E i \in rs : ~(i < Len(d)) THEN Panic ELSE result

\* a slip: the test that the 2-byte length is inside the input (lines 94-96
\* and 114-116) is missing, so the length is read past the end
RECURSIVE AvccEntries_unchecked(_, _, _, _, _, _)
AvccEntries_unchecked(d, offset, n, nals, rs, what) ==
    IF n = 0 THEN [kind |-> "ok", offset |-> offset, nals |-> nals, reads |-> rs]
    ELSE LET size == BE16(Rd(d, offset), Rd(d, offset + 1))
             off2 == offset + 2
             rs2 == rs \cup {offset, offset + 1}
         IN  IF off2 + size > Len(d)
             THEN [kind |-> "err", msg |-> what \o " data truncated", reads |-> rs2]
             ELSE AvccEntries_unchecked(d, off2 + size, n - 1,
                              nals \o START_CODE \o Slice(d, off2, off2 + size),
                              rs2 \cup (off2 .. off2 + size - 1), what)

\* `for _ in 0..n` of parse_avcc (lines 93-105 and 113-125): n entries
\* {2-byte length, payload} from offset on, appended to nals
RECURSIVE AvccEntries(_, _, _, _, _, _)
AvccEntries(d, offset, n, nals, rs, what) ==
    IF n = 0 THEN [kind |-> "ok", offset |-> offset, nals |-> nals, reads |-> rs]
    ELSE IF offset + 2 > Len(d)
    THEN [kind |-> "err", msg |-> "Invalid " \o what \o " length", reads |-> rs]
    ELSE LET size == BE16(Rd(d, offset), Rd(d, offset + 1))
             off2 == offset + 2
             rs2 == rs \cup {offset, offset + 1}
         IN  IF off2 + size > Len(d)
             THEN [kind |-> "err", msg |-> what \o " data truncated", reads |-> rs2]
             ELSE AvccEntries(d, off2 + size, n - 1,
                              nals \o START_CODE \o Slice(d, off2, off2 + size),
                              rs2 \cup (off2 .. off2 + size - 1), what)

\* a slip: the reserved high bits of the count byte are not masked off
SpsCount_unmasked(b) == b

\* extradata[offset] & 0x1F
SpsCount(b) == b % 32

parse_avcc(d) ==
    IF Len(d) < AVCC_HEADER_SIZE + 2 THEN Err("AVCC header too short")
    ELSE
        LET num_sps == SpsCount(Rd(d, AVCC_HEADER_SIZE))
            s == AvccEntries(d, AVCC_HEADER_SIZE + 1, num_sps, <<>>,
                             {AVCC_HEADER_SIZE}, "SPS")
        IN  IF s.kind = "err" THEN Checked(d, s.reads, Err(s.msg))
            ELSE IF s.offset >= Len(d) THEN Checked(d, s.reads, Err("Missing PPS"))
            ELSE
                LET num_pps == Rd(d, s.offset)
                    p == AvccEntries(d, s.offset + 1, num_pps, <<>>,
                                     s.reads \cup {s.offset}, "PPS")
                IN  IF p.kind = "err" THEN Checked(d, p.reads, Err(p.msg))
                    ELSE IF s.nals = <<>> \/ p.nals = <<>>
                    THEN Checked(d, p.reads, Err("Missing required parameter sets"))
                    ELSE Checked(d, p.reads, Ok(<<>>, s.nals, p.nals))

NoSets == [vps |-> <<>>, sps |-> <<>>, pps |-> <<>>]

\* the match on nal_type of parse_hvcc (lines 175-190)
HvccRoute(sets, nal_type, payload) ==
    CASE nal_type = 32 -> [sets EXCEPT !.vps = @ \o START_CODE \o payload]
      [] nal_type = 33 -> [sets EXCEPT !.sps = @ \o START_CODE \o payload]
      [] nal_type = 34 -> [sets EXCEPT !.pps = @ \o START_CODE \o payload]
      [] OTHER -> sets

\* a slip: the array_completeness and reserved bits are not masked off
HvccNalType_unmasked(b) == b

\* extradata[offset] & 0x3F
HvccNalType(b) == b % 64

\* the inner `for _ in 0..num_nals` (lines 162-192); a break leaves this loop only
RECURSIVE HvccNals(_, _, _, _, _, _)
HvccNals(d, offset, n, nal_type, sets, rs) ==
    IF n = 0 \/ offset + 2 > Len(d)
    THEN [offset |-> offset, sets |-> sets, reads |-> rs]
    ELSE LET nal_size == BE16(Rd(d, offset), Rd(d, offset + 1))
             off2 == offset + 2
             rs2 == rs \cup {offset, offset + 1}
         IN  IF off2 + nal_size > Len(d)
             THEN [offset |-> off2, sets |-> sets, reads |-> rs2]
             ELSE HvccNals(d, off2 + nal_size, n - 1, nal_type,
                           HvccRoute(sets, nal_type, Slice(d, off2, off2 + nal_size)),
                           IF nal_type \in {32, 33, 34}
                           THEN rs2 \cup (off2 .. off2 + nal_size - 1) ELSE rs2)

\* the outer `for _ in 0..num_arrays` (lines 152-193)
RECURSIVE HvccArrays(_, _, _, _, _)
HvccArrays(d, offset, n, sets, rs) ==
    IF n = 0 \/ offset + 3 > Len(d)
    THEN [offset |-> offset, sets |-> sets, reads |-> rs]
    ELSE LET nal_type == HvccNalType(Rd(d, offset))
             num_nals == BE16(Rd(d, offset + 1), Rd(d, offset + 2))
             r == HvccNals(d, offset + 3, num_nals, nal_type, sets,
                           rs \cup {offset, offset + 1, offset + 2})
         IN  HvccArrays(d, r.offset, n - 1, r.sets, r.reads)

parse_hvcc(d) ==
    IF Len(d) < HVCC_HEADER_SIZE + 1 THEN Err("HVCC header too short")
    ELSE
        LET num_arrays == Rd(d, HVCC_HEADER_SIZE)
            a == HvccArrays(d, HVCC_HEADER_SIZE + 1, num_arrays, NoSets,
                            {HVCC_HEADER_SIZE})
        IN  IF a.sets.sps = <<>> \/ a.sets.pps = <<>>
            THEN Checked(d, a.reads, Err("Missing required HEVC parameter sets"))
            ELSE Checked(d, a.reads, Ok(a.sets.vps, a.sets.sps, a.sets.pps))

parse(d, c) == IF c = "H264" THEN parse_avcc(d) ELSE parse_hvcc(d)

\* a slip: the VPS is left out under H265 too
write_to_no_vps(ps, c) == ps.sps \o ps.pps

\* ParameterSets::write_to
write_to(ps, c) == (IF c = "H265" THEN ps.vps ELSE <<>>) \o ps.sps \o ps.pps

\* ParameterSets::validate
\* a slip: the VPS is asked of every profile
validate_vps_always(ps, c) ==
    IF ps.sps = <<>> \/ ps.pps = <<>> THEN Err("Missing required parameter sets")
    ELSE IF ps.vps = <<>> THEN Err("Missing required VPS for H.265")
    ELSE [kind |-> "ok"]

\* ParameterSets::validate(&self, codec)
validate(ps, c) ==
    IF ps.sps = <<>> \/ ps.pps = <<>> THEN Err("Missing required parameter sets")
    ELSE IF c = "H265" /\ ps.vps = <<>> THEN Err("Missing required VPS for H.265")
    ELSE [kind |-> "ok"]

----------------------------------------------------------------------------
(* The access units given to convert_to_annex_b: complete records           *)
(* {4-byte big-endian length, payload}, then the start of one more record   *)
(* that the buffer cuts short. Every byte string is of this shape.          *)

MaxRecords == 2

\* payloads of complete records: none, a slice, H264 SPS and SEI, H265 VPS
\* (64 >> 1 = 32) and SEI (78 >> 1 = 39), an IDR slice, an SPS with a body
ConvPayloads == {<<>>, <<1>>, <<7>>, <<6>>, <<64>>, <<78>>, <<101, 2>>, <<103, 3>>}

\* a record cut short: inside its length field, or with a declared length that
\* overruns what is left (2 bytes declared, none or one there; 256 declared)
ConvTails ==
    {<<>>, <<0>>, <<7>>, <<0, 0, 0>>, <<0, 0, 0, 2>>, <<0, 0, 0, 2, 1>>,
     <<0, 0, 0, 2, 7>>, <<0, 0, 0, 2, 64>>, <<0, 0, 1, 0, 1>>}

EncodeRecord(payload) == <<0, 0, 0, Len(payload)>> \o payload

RECURSIVE EncodeRecords(_)
EncodeRecords(rs) ==
    IF rs = <<>> THEN <<>> ELSE EncodeRecord(Head(rs)) \o EncodeRecords(Tail(rs))

AccessUnits ==
    [records : SeqsUpTo(ConvPayloads, MaxRecords), tail : ConvTails]

ParseIdle ==
    /\ desc = "none" /\ extradata = <<>> /\ pcodec = "H264"
    /\ presult = "none" /\ ppc = "idle"

SessionIdle ==
    /\ codec_type = "H264"
    /\ parameter_sets = NoSets
    /\ frame_packets = <<>>
    /\ last_timestamp = 0 /\ last_progress = 0
    /\ accepted = <<>> /\ call = [op |-> "none"]
    /\ overflow_checks = TRUE

FnIdle == fcall = [name |-> "none"]

MainIdle ==
    /\ codec_format = "h264" /\ sps_nals = <<>> /\ pps_nals = <<>>
    /\ time_base = [numerator |-> 1, denominator |-> 1]
    /\ main_frame_packets = <<>> /\ first_frame = TRUE /\ sequence = 0
    /\ mpc = "idle" /\ iter = [op |-> "none"]
    /\ written = <<>> /\ pushed = <<>> /\ nread = 0

ConvInit ==
    /\ au \in AccessUnits
    /\ data = EncodeRecords(au.records) \o au.tail
    /\ codec \in CodecType
    /\ pos = 0 /\ converted = <<>> /\ reads = {} /\ cpc = "loop"
    /\ ParseIdle /\ SessionIdle /\ FnIdle /\ MainIdle

\* one pass through the loop body (lines 230-258), leaving by break or not
ConvIter ==
    /\ cpc = "loop" /\ pos < Len(data)
    /\ LET r == ConvBody(data, codec, pos, converted)
       IN  /\ pos' = r.pos
           /\ converted' = r.converted
           /\ reads' = r.reads
           /\ cpc' = IF r.stop THEN "done" ELSE "loop"
    /\ UNCHANGED <<au, data, codec, parseVars, sessionVars, fnVars, mainVars>>

\* the while condition fails: return converted
ConvExit ==
    /\ cpc = "loop" /\ ~(pos < Len(data))
    /\ cpc' = "done" /\ reads' = {}
    /\ UNCHANGED <<au, data, codec, pos, converted, parseVars, sessionVars, fnVars, mainVars>>

ConvNext == ConvIter \/ ConvExit

SpecConv == ConvInit /\ [][ConvNext]_vars

\* The function runs on its caller's thread: a pass that can be taken is taken.
SpecConvFair == SpecConv /\ WF_vars(ConvNext)

ConvDone == cpc = "done"

----------------------------------------------------------------------------
(* The configuration records given to ParameterSets::parse. A record is     *)
(* described by its entries and encoded as the code reads it; the input is  *)
(* the encoding or a prefix of it. Every byte string is a prefix of (or is,  *)
(* or extends) the encoding of some record, so truncations of described     *)
(* records are all the ways a read can exceed the input.                    *)

MaxParamNals == 2
MaxArrays == 3

\* the header of test_parameter_sets_parse; parse_avcc never reads it
AvccHeader == <<1, 0, 0, 0, 0>>
HvccHeader == <<1>> \o [i \in 1..(HVCC_HEADER_SIZE - 1) |-> 0]

AvccPayloads == {<<>>, <<103>>, <<104, 206>>}

\* a payload that reads as an array header (type 34, one entry, of length 0)
FakeArray == <<34, 0, 1, 0, 0, 0>>

EncodeEntry(payload) == <<Len(payload) \div 256, Len(payload) % 256>> \o payload

RECURSIVE EncodeEntries(_)
EncodeEntries(ps) ==
    IF ps = <<>> THEN <<>> ELSE EncodeEntry(Head(ps)) \o EncodeEntries(Tail(ps))

\* hi: the reserved high 3 bits of the SPS count byte (0xE0 in real records)
AvccRecords ==
    [hi : {0, 224},
     sps : SeqsUpTo(AvccPayloads, MaxParamNals),
     pps : SeqsUpTo(AvccPayloads, MaxParamNals)]

EncodeAvcc(r) ==
    AvccHeader \o <<r.hi + Len(r.sps)>> \o EncodeEntries(r.sps)
        \o <<Len(r.pps)>> \o EncodeEntries(r.pps)

\* array header bytes: VPS with the array_completeness bit set (0x80 | 32),
\* SPS, PPS, and a prefix SEI array (39), which parse_hvcc ignores
HvccArraySet ==
    [type_byte : {160, 33, 34, 39},
     nals : {<<<<64>>>>, <<<<>>, <<66, 1>>>>, <<<<>>, FakeArray>>}]

HvccRecords == [arrays : SeqsUpTo(HvccArraySet, MaxArrays)]

EncodeArray(a) ==
    <<a.type_byte, Len(a.nals) \div 256, Len(a.nals) % 256>> \o EncodeEntries(a.nals)

RECURSIVE EncodeArrays(_)
EncodeArrays(as) ==
    IF as = <<>> THEN <<>> ELSE EncodeArray(Head(as)) \o EncodeArrays(Tail(as))

EncodeHvcc(r) == HvccHeader \o <<Len(r.arrays)>> \o EncodeArrays(r.arrays)

Encode(r, c) == IF c = "H264" THEN EncodeAvcc(r) ELSE EncodeHvcc(r)

\* where the input is cut: anywhere in an AVC record; in an HEVC record, in
\* the header (one cut stands for all of them) or anywhere after it
Cuts(r, c) ==
    IF c = "H264" THEN 0 .. Len(EncodeAvcc(r))
    ELSE {HVCC_HEADER_SIZE - 1} \cup (HVCC_HEADER_SIZE .. Len(EncodeHvcc(r)))

ConvIdle ==
    /\ au = [records |-> <<>>, tail |-> <<>>] /\ data = <<>> /\ codec = "H264"
    /\ pos = 0 /\ converted = <<>> /\ reads = {} /\ cpc = "idle"

ParseInit ==
    /\ pcodec \in CodecType
    /\ \E r \in (IF pcodec = "H264" THEN AvccRecords ELSE HvccRecords) :
         \E k \in Cuts(r, pcodec) :
            /\ desc = [rec |-> r, cut |-> k]
            /\ extradata = SubSeq(Encode(r, pcodec), 1, k)
    /\ presult = "none" /\ ppc = "ready"
    /\ ConvIdle /\ SessionIdle /\ FnIdle /\ MainIdle

\* ParameterSets::parse(extradata, codec)
Parse ==
    /\ ppc = "ready"
    /\ presult' = parse(extradata, pcodec)
    /\ ppc' = "done"
    /\ UNCHANGED <<desc, extradata, pcodec, convVars, sessionVars, fnVars, mainVars>>

ParseNext == Parse

SpecParse == ParseInit /\ [][ParseNext]_vars

ParseDone == ppc = "done"

\* the whole encoding of the described record is there
Complete == desc.cut = Len(Encode(desc.rec, pcodec))

----------------------------------------------------------------------------
(* VideoConverter: one session. An Option is <<>> (None) or <<x>> (Some(x)). *)
(* `call` is the last call made on the session: its arguments, its result,  *)
(* and the fields it could change as they were before it.                   *)

\* u64::MAX, the "none yet" value of last_timestamp, on a narrow scale
U64_MAX == 9
\* 1_000_000_000, the nanoseconds of a second, on the same scale
NANOS_PER_SECOND == 3
MaxPackets == 2

None == <<>>
Some(x) == <<x>>

\* the records sessions are opened on: one AVC, one HEVC with all three sets
SessionRecord(c) ==
    IF c = "H264"
    THEN [hi |-> 224, sps |-> <<<<103>>>>, pps |-> <<<<104, 206>>>>]
    ELSE [arrays |-> <<[type_byte |-> 160, nals |-> <<<<64>>>>],
                       [type_byte |-> 33, nals |-> <<<<>>, <<66, 1>>>>],
                       [type_byte |-> 34, nals |-> <<<<64>>>>]>>]

\* the payloads of packets: absent, empty, one IDR slice, one record the
\* converter drops under H264 (SPS), one record cut short
PacketData ==
    {None, Some(<<>>), Some(<<0, 0, 0, 1, 101>>), Some(<<0, 0, 0, 1, 103>>),
     Some(<<0, 0, 0, 2, 1>>)}

PacketTimes == {None, Some(0), Some(1)}

Packets == [data : PacketData, pts : PacketTimes, dts : PacketTimes, key : BOOLEAN]

\* VideoConverter::new, from the extradata on: parse, validate, initial fields
new(e, c) ==
    LET parsed == parse(e, c)
    IN  IF parsed.kind # "ok" THEN parsed
        ELSE LET ps == [vps |-> parsed.vps, sps |-> parsed.sps, pps |-> parsed.pps]
             IN  IF validate(ps, c).kind # "ok" THEN validate(ps, c)
                 ELSE [kind |-> "ok", codec_type |-> c, parameter_sets |-> ps,
                       frame_packets |-> <<>>, last_timestamp |-> U64_MAX,
                       last_progress |-> 0]

NewSession ==
    /\ \E c \in CodecType :
         LET v == new(Encode(SessionRecord(c), c), c)
         IN  /\ v.kind = "ok"
             /\ codec_type = v.codec_type
             /\ parameter_sets = v.parameter_sets
             /\ frame_packets = v.frame_packets
             /\ last_timestamp = v.last_timestamp
             /\ last_progress = v.last_progress
    /\ accepted = None
    /\ call = [op |-> "new"]
    /\ ConvIdle /\ ParseIdle /\ FnIdle /\ MainIdle

\* No call of the frame assembler does arithmetic: one build stands for both.
Init == NewSession /\ overflow_checks = TRUE

\* a slip: the contribution is pushed before PTS and DTS are compared
process_packet_push_first(ps, c, fp, packet, is_first) ==
    LET d == IF packet.data = None THEN <<>> ELSE packet.data[1]
        entry == (IF is_first \/ packet.key THEN write_to(ps, c) ELSE <<>>)
                     \o convert_to_annex_b(d, c)
    IN  IF d = <<>> THEN [result |-> [kind |-> "ok"], frame_packets |-> fp]
        ELSE IF packet.pts = None
        THEN [result |-> Err("Missing PTS"), frame_packets |-> fp]
        ELSE IF packet.dts = None
        THEN [result |-> Err("Missing DTS"), frame_packets |-> fp]
        ELSE IF packet.pts # packet.dts
        THEN [result |-> [kind |-> "err", msg |-> "reordered",
                          pts |-> packet.pts[1], dts |-> packet.dts[1]],
              frame_packets |-> Append(fp, entry)]
        ELSE [result |-> [kind |-> "ok"], frame_packets |-> Append(fp, entry)]

\* process_packet(&mut self, packet, is_first): the result and the buffer after
process_packet(ps, c, fp, packet, is_first) ==
    IF packet.data = None \/ packet.data = Some(<<>>)
    THEN [result |-> [kind |-> "ok"], frame_packets |-> fp]
    ELSE IF packet.pts = None
    THEN [result |-> Err("Missing PTS"), frame_packets |-> fp]
    ELSE IF packet.dts = None
    THEN [result |-> Err("Missing DTS"), frame_packets |-> fp]
    ELSE IF packet.pts # packet.dts
    THEN [result |-> [kind |-> "err", msg |-> "reordered",
                      pts |-> packet.pts[1], dts |-> packet.dts[1]],
          frame_packets |-> fp]
    ELSE IF is_first \/ packet.key
    THEN [result |-> [kind |-> "ok"],
          frame_packets |->
              Append(fp, write_to(ps, c) \o convert_to_annex_b(packet.data[1], c))]
    ELSE [result |-> [kind |-> "ok"],
          frame_packets |-> Append(fp, convert_to_annex_b(packet.data[1], c))]

\* check_timestamp(&mut self, timestamp_ns): the result and last_timestamp after
check_timestamp(last, timestamp_ns) ==
    IF timestamp_ns <= last /\ last # U64_MAX
    THEN [result |-> [kind |-> "err", msg |-> "non-monotonic",
                      current |-> timestamp_ns, last |-> last],
          last_timestamp |-> last]
    ELSE [result |-> [kind |-> "ok"], last_timestamp |-> timestamp_ns]

\* update_progress(&mut self, timestamp_ns): what it returns and last_progress
\* after. `self.last_progress + 1_000_000_000` is a u64 sum: past u64::MAX it
\* panics where overflow is checked and wraps where it is not.
update_progress(last, timestamp_ns, checks) ==
    LET sum == last + NANOS_PER_SECOND
        threshold == sum % (U64_MAX + 1)
    IN  IF sum > U64_MAX /\ checks
        THEN [result |-> Panic, last_progress |-> last]
        ELSE IF timestamp_ns >= threshold
        THEN [result |-> [kind |-> "ret", value |-> TRUE], last_progress |-> timestamp_ns]
        ELSE [result |-> [kind |-> "ret", value |-> FALSE], last_progress |-> last]

\* a panic has unwound out of the session: no further call is made on it
Panicked == call.op = "update_progress" /\ call.result.kind = "panic"

\* a slip: the buffer is not cleared
take_frame_data_keep(fp) == [ret |-> Flatten(fp), frame_packets |-> fp]

\* the loop of take_frame_data over frame_packets.iter()
RECURSIVE TakeLoop(_, _)
TakeLoop(frame_data, rest) ==
    IF rest = <<>> THEN frame_data ELSE TakeLoop(frame_data \o Head(rest), Tail(rest))

\* take_frame_data(&mut self): the returned buffer and frame_packets after
take_frame_data(fp) == [ret |-> TakeLoop(<<>>, fp), frame_packets |-> <<>>]

ProcessPacket ==
    /\ Len(frame_packets) < MaxPackets
    /\ \E packet \in Packets, is_first \in BOOLEAN :
         LET r == process_packet(parameter_sets, codec_type, frame_packets,
                                 packet, is_first)
         IN  /\ frame_packets' = r.frame_packets
             /\ call' = [op |-> "process_packet", packet |-> packet,
                         is_first |-> is_first, result |-> r.result,
                         before |-> frame_packets]
    /\ UNCHANGED <<codec_type, parameter_sets, last_timestamp, last_progress,
                   accepted, overflow_checks, convVars, parseVars, fnVars, mainVars>>

CheckTimestamp ==
    /\ ~Panicked
    /\ \E timestamp_ns \in 0..U64_MAX :
         LET r == check_timestamp(last_timestamp, timestamp_ns)
         IN  /\ last_timestamp' = r.last_timestamp
             /\ accepted' = IF r.result.kind = "ok" THEN Some(timestamp_ns) ELSE accepted
             /\ call' = [op |-> "check_timestamp", timestamp_ns |-> timestamp_ns,
                         result |-> r.result, before |-> accepted]
    /\ UNCHANGED <<codec_type, parameter_sets, frame_packets, last_progress,
                   overflow_checks, convVars, parseVars, fnVars, mainVars>>

TakeFrameData ==
    /\ LET r == take_frame_data(frame_packets)
       IN  /\ frame_packets' = r.frame_packets
           /\ call' = [op |-> "take_frame_data", ret |-> r.ret,
                       before |-> frame_packets, after |-> call.op]
    /\ UNCHANGED <<codec_type, parameter_sets, last_timestamp, last_progress,
                   accepted, overflow_checks, convVars, parseVars, fnVars, mainVars>>

UpdateProgress ==
    /\ ~Panicked
    /\ \E timestamp_ns \in 0..U64_MAX :
         LET r == update_progress(last_progress, timestamp_ns, overflow_checks)
         IN  /\ last_progress' = r.last_progress
             /\ call' = [op |-> "update_progress", timestamp_ns |-> timestamp_ns,
                         result |-> r.result, before |-> last_progress]
    /\ UNCHANGED <<codec_type, parameter_sets, frame_packets, last_timestamp,
                   accepted, overflow_checks, convVars, parseVars, fnVars, mainVars>>

\* The frame assembler: packets processed and frames taken, in any order.
Next == ProcessPacket \/ TakeFrameData

Spec == Init /\ [][Next]_vars

\* The timing guard and the progress throttle of the same session. Their calls
\* read and write last_timestamp and last_progress alone, which no call of the
\* assembler touches, so the two are explored apart. The build is either one.
TimeInit == NewSession /\ overflow_checks \in BOOLEAN

TimeNext == CheckTimestamp \/ UpdateProgress

SpecTime == TimeInit /\ [][TimeNext]_vars

----------------------------------------------------------------------------
(* main (src/src/main.rs): the packet loop that drives the decoder and       *)
(* writes one message per decoded frame. It has its own converter and its    *)
(* own reading of the extradata, and keeps its own frame_packets.            *)

\* the frame count at which the loop breaks (100), on a narrow scale
FRAME_LIMIT == 2
MaxMainPackets == 3

\* the NAL type main reads from a NAL header byte, by format string
MainNalTypeOf(format, b) ==
    IF format = "h264" THEN b % 32
    ELSE IF format = "h265" THEN (b \div 2) % 64
    ELSE 0

\* one pass through the loop body of main's convert_to_annex_b: the types
\* dropped are 7, 8 and 6 whatever the format
MainConvBody(d, format, p, out) ==
    IF p + 4 > Len(d)
    THEN [pos |-> p, converted |-> out, stop |-> TRUE]
    ELSE
        LET nal_size == BE32(d[p + 1], d[p + 2], d[p + 3], d[p + 4])
            nal_type == IF p + 4 + 1 <= Len(d) THEN MainNalTypeOf(format, d[p + 5]) ELSE 0
            p4 == p + 4
            fits == p4 + nal_size <= Len(d)
            keep == nal_type # 7 /\ nal_type # 8 /\ nal_type # 6
            out1 == IF keep THEN out \o START_CODE ELSE out
            out2 == IF keep /\ fits THEN out1 \o Slice(d, p4, p4 + nal_size) ELSE out1
        IN  [pos |-> IF fits THEN p4 + nal_size ELSE p4,
             converted |-> out2,
             stop |-> ~fits]

RECURSIVE MainConvLoop(_, _, _, _)
MainConvLoop(d, format, p, out) ==
    IF ~(p < Len(d)) THEN out
    ELSE LET r == MainConvBody(d, format, p, out)
         IN  IF r.stop THEN r.converted ELSE MainConvLoop(d, format, r.pos, r.converted)

\* main's convert_to_annex_b(data, codec_format)
main_convert_to_annex_b(d, format) == MainConvLoop(d, format, 0, <<>>)

\* `for _ in 0..n` over the entries {2-byte length, payload} of the extradata,
\* with no test of the lengths: an index past the end panics
RECURSIVE MainEntries(_, _, _, _)
MainEntries(d, offset, n, nals) ==
    IF n = 0 THEN [kind |-> "ok", offset |-> offset, nals |-> nals]
    ELSE IF offset + 1 >= Len(d) THEN Panic
    ELSE LET size == BE16(d[offset + 1], d[offset + 2])
             off2 == offset + 2
         IN  IF off2 + size > Len(d) THEN Panic
             ELSE MainEntries(d, off2 + size, n - 1,
                              nals \o START_CODE \o Slice(d, off2, off2 + size))

\* main's reading of the extradata as an AVC record, whatever the format:
\* sps_nals and pps_nals
main_parameter_sets(d) ==
    IF 5 >= Len(d) THEN Panic
    ELSE LET sps == MainEntries(d, 6, d[5 + 1] % 32, <<>>)
         IN  IF sps.kind = "panic" THEN Panic
             ELSE IF sps.offset >= Len(d) THEN Panic
             ELSE LET pps == MainEntries(d, sps.offset + 1, d[sps.offset + 1], <<>>)
                  IN  IF pps.kind = "panic" THEN Panic
                      ELSE [kind |-> "ok", sps_nals |-> sps.nals, pps_nals |-> pps.nals]

\* (pts as f64 * numerator as f64 / denominator as f64 * 1e9) as u64: the cast
\* truncates, takes a negative value to 0 and a value past u64::MAX to
\* u64::MAX. The rounding of f64 is left out.
get_timestamp(pts, tb) ==
    LET ns == (pts * tb.numerator * NANOS_PER_SECOND) \div tb.denominator
    IN  IF pts < 0 THEN 0 ELSE IF ns > U64_MAX THEN U64_MAX ELSE ns

\* packet.pts().unwrap_or(0), then the same scaling, in main's loop
main_timestamp_ns(packet, tb) ==
    get_timestamp(IF packet.pts = None THEN 0 ELSE packet.pts[1], tb)

\* a slip: the flag is cleared by the first packet of the stream, payload or not
push_packet_clears_always(first, fp, packet, sets, format) ==
    IF packet.data = None \/ packet.data = Some(<<>>)
    THEN [first_frame |-> FALSE, frame_packets |-> fp, contribution |-> None]
    ELSE LET annex_b == main_convert_to_annex_b(packet.data[1], format)
             frame_data == IF first \/ packet.key THEN sets \o annex_b ELSE annex_b
         IN  [first_frame |-> FALSE, frame_packets |-> Append(fp, frame_data),
              contribution |-> Some(frame_data)]

\* `if let Some(data) = packet.data() { if !data.is_empty() { ... } }`: the flag
\* and the buffer after, and what was pushed if anything
push_packet(first, fp, packet, sets, format) ==
    IF packet.data = None \/ packet.data = Some(<<>>)
    THEN [first_frame |-> first, frame_packets |-> fp, contribution |-> None]
    ELSE LET annex_b == main_convert_to_annex_b(packet.data[1], format)
         IN  IF first
             THEN [first_frame |-> FALSE,
                   frame_packets |-> Append(fp, sets \o annex_b),
                   contribution |-> Some(sets \o annex_b)]
             ELSE IF packet.key
             THEN [first_frame |-> first,
                   frame_packets |-> Append(fp, sets \o annex_b),
                   contribution |-> Some(sets \o annex_b)]
             ELSE [first_frame |-> first,
                   frame_packets |-> Append(fp, annex_b),
                   contribution |-> Some(annex_b)]

\* the loop that prints the NAL types of frame_data: it indexes offset + 4
\* after every start code, which panics when a start code ends the buffer
RECURSIVE PrintNalTypes(_, _)
PrintNalTypes(frame_data, offset) ==
    IF ~(offset < Len(frame_data)) THEN "ok"
    ELSE IF /\ offset + 4 <= Len(frame_data)
            /\ Slice(frame_data, offset, offset + 4) = START_CODE
    THEN IF offset + 4 < Len(frame_data) THEN PrintNalTypes(frame_data, offset + 4)
         ELSE "panic"
    ELSE PrintNalTypes(frame_data, offset + 1)

\* receive_frame returned Ok: frame_data is the concatenation of frame_packets,
\* the message carries it with the current packet's timestamp, and the buffer
\* is cleared
emit_frame(fp, timestamp_ns, seq) ==
    [frame_packets |-> <<>>,
     message |-> [data |-> TakeLoop(<<>>, fp), log_time |-> timestamp_ns,
                  sequence |-> seq],
     scan |-> PrintNalTypes(TakeLoop(<<>>, fp), 0)]

\* the payloads of the stream's packets: absent, empty, an IDR slice, a
\* non-IDR slice, a record cut short (it converts to a bare start code)
MainData ==
    {None, Some(<<>>), Some(<<0, 0, 0, 1, 101>>), Some(<<0, 0, 0, 1, 65>>),
     Some(<<0, 0, 0, 2, 65>>)}

MainTimes == {None, Some(-1), Some(1)}

MainPackets == [data : MainData, pts : MainTimes, key : BOOLEAN]

\* what the decoder answers to a packet: send_packet fails, or receive_frame
\* gives a frame, asks for more (EAGAIN), or fails
Signals == {"send_error", "frame", "again", "error"}

FormatOf(c) == IF c = "H264" THEN "h264" ELSE "h265"

MainInit ==
    /\ \E c \in CodecType :
         LET sets == main_parameter_sets(Encode(SessionRecord(c), c))
         IN  /\ sets.kind = "ok"
             /\ codec_format = FormatOf(c)
             /\ sps_nals = sets.sps_nals /\ pps_nals = sets.pps_nals
    /\ time_base \in {[numerator |-> 1, denominator |-> 1],
                      [numerator |-> 1, denominator |-> 2]}
    /\ main_frame_packets = <<>> /\ first_frame = TRUE /\ sequence = 0
    /\ mpc = "loop" /\ iter = [op |-> "none"]
    /\ written = <<>> /\ pushed = <<>> /\ nread = 0
    /\ ConvIdle /\ ParseIdle /\ SessionIdle /\ FnIdle

\* a packet of another stream: `continue`
SkipPacket ==
    /\ mpc = "loop" /\ nread < MaxMainPackets
    /\ nread' = nread + 1
    /\ iter' = [op |-> "skip"]
    /\ UNCHANGED <<codec_format, sps_nals, pps_nals, time_base, main_frame_packets,
                   first_frame, sequence, mpc, written, pushed,
                   convVars, parseVars, sessionVars, fnVars>>

\* one pass of the loop on a packet of the video stream (lines 238-341)
Pass ==
    /\ mpc = "loop" /\ nread < MaxMainPackets
    /\ \E packet \in MainPackets, signal \in Signals :
         LET timestamp_ns == main_timestamp_ns(packet, time_base)
             p == push_packet(first_frame, main_frame_packets, packet,
                              sps_nals \o pps_nals, codec_format)
             e == emit_frame(p.frame_packets, timestamp_ns, sequence)
             emits == signal = "frame" /\ e.scan = "ok"
             \* wrapping_add(1): the break below keeps sequence under 2^32
             seq1 == sequence + 1
         IN  /\ nread' = nread + 1
             /\ first_frame' = p.first_frame
             /\ pushed' = pushed \o p.contribution
             /\ main_frame_packets' = IF emits THEN e.frame_packets ELSE p.frame_packets
             \* npushed: how many contributions had been pushed by then (history)
             /\ written' = IF emits
                           THEN Append(written,
                                       [message |-> e.message,
                                        npushed |-> Len(pushed \o p.contribution)])
                           ELSE written
             /\ sequence' = IF emits THEN seq1 ELSE sequence
             /\ mpc' = IF signal \in {"send_error", "error"} THEN "failed"
                        ELSE IF signal = "again" THEN "loop"
                        ELSE IF e.scan = "panic" THEN "panicked"
                        ELSE IF seq1 >= FRAME_LIMIT THEN "done"
                        ELSE "loop"
             /\ iter' = [op |-> "pass", packet |-> packet, signal |-> signal,
                         timestamp_ns |-> timestamp_ns,
                         contribution |-> p.contribution,
                         before |-> main_frame_packets,
                         first_before |-> first_frame,
                         written_before |-> Len(written)]
    /\ UNCHANGED <<codec_format, sps_nals, pps_nals, time_base,
                   convVars, parseVars, sessionVars, fnVars>>

\* packet_iter.next() is None: the loop ends, the writer is finished
EndOfInput ==
    /\ mpc = "loop"
    /\ mpc' = "done"
    /\ iter' = [op |-> "end"]
    /\ UNCHANGED <<codec_format, sps_nals, pps_nals, time_base, main_frame_packets,
                   first_frame, sequence, written, pushed, nread,
                   convVars, parseVars, sessionVars, fnVars>>

MainNext == SkipPacket \/ Pass \/ EndOfInput

SpecMain == MainInit /\ [][MainNext]_vars

----------------------------------------------------------------------------
(* The associated functions that take no session, each applied once to       *)
(* arguments drawn from bounded sets: ParameterSets::validate on bundles     *)
(* built field by field (as the tests build them), should_skip_nal on every  *)
(* u8.                                                                       *)

\* what a field of a bundle holds: nothing, one byte, one Annex-B NAL
BundleBytes == {<<>>, <<1>>, START_CODE \o <<64>>}

Bundles == [vps : BundleBytes, sps : BundleBytes, pps : BundleBytes]

FnInit ==
    /\ \/ \E ps \in Bundles, c \in CodecType :
            fcall = [name |-> "validate", bundle |-> ps, codec |-> c, ret |-> None]
       \/ \E c \in CodecType, nal_type \in 0..255 :
            fcall = [name |-> "should_skip_nal", codec |-> c, nal_type |-> nal_type,
                     ret |-> None]
    /\ ConvIdle /\ ParseIdle /\ SessionIdle /\ MainIdle

Validate ==
    /\ fcall.name = "validate" /\ fcall.ret = None
    /\ fcall' = [fcall EXCEPT !.ret = Some(validate(fcall.bundle, fcall.codec))]
    /\ UNCHANGED <<convVars, parseVars, sessionVars, mainVars>>

ShouldSkipNal ==
    /\ fcall.name = "should_skip_nal" /\ fcall.ret = None
    /\ fcall' = [fcall EXCEPT !.ret = Some(should_skip_nal(fcall.codec, fcall.nal_type))]
    /\ UNCHANGED <<convVars, parseVars, sessionVars, mainVars>>

FnNext == Validate \/ ShouldSkipNal

SpecFn == FnInit /\ [][FnNext]_vars

Returned(name) == fcall.name = name /\ fcall.ret # None

----------------------------------------------------------------------------
(* Claims about the progress throttle *)

\* C13: update_progress(timestamp_ns) returns true and sets last_progress to
\* timestamp_ns exactly when timestamp_ns >= last_progress + 1_000_000_000;
\* otherwise it returns false and leaves last_progress alone. So a timestamp
\* that returns true is at least a second past the one that returned true
\* before it (past 0 for the first).
C13_ProgressIffSecondElapsed ==
    call.op = "update_progress" =>
        IF call.timestamp_ns >= call.before + NANOS_PER_SECOND
        THEN /\ call.result = [kind |-> "ret", value |-> TRUE]
             /\ last_progress = call.timestamp_ns
             /\ call.timestamp_ns - call.before >= NANOS_PER_SECOND
        ELSE /\ call.result = [kind |-> "ret", value |-> FALSE]
             /\ last_progress = call.before

\* C19: the sum last_progress + 1_000_000_000 that update_progress computes
\* never exceeds u64::MAX, in any state a session reaches, whatever u64
\* timestamps it was given.
C19_ThresholdNeverOverflows ==
    call.op = "update_progress" => call.before + NANOS_PER_SECOND <= U64_MAX

\* What holds of the code: as long as the sum fits, the throttle does as C13
\* says.
ProgressIffSecondElapsedWhenSumFits ==
    (call.op = "update_progress" /\ call.before + NANOS_PER_SECOND <= U64_MAX)
        => IF call.timestamp_ns >= call.before + NANOS_PER_SECOND
           THEN /\ call.result = [kind |-> "ret", value |-> TRUE]
                /\ last_progress = call.timestamp_ns
           ELSE /\ call.result = [kind |-> "ret", value |-> FALSE]
                /\ last_progress = call.before

----------------------------------------------------------------------------
(* Claims about convert_to_annex_b *)

\* The reference scan of C1 over the described access unit: each complete
\* record whose NAL type is not skippable gives START_CODE and its payload,
\* a skippable one gives nothing, and the record cut short gives nothing. The
\* NAL type is taken from the byte that follows the length field (the first
\* payload byte; 0 when the buffer ends there).
RECURSIVE RefScan(_, _, _)
RefScan(rs, tl, c) ==
    IF rs = <<>> THEN <<>>
    ELSE LET following == Head(rs) \o EncodeRecords(Tail(rs)) \o tl
             nal_type == IF following = <<>> THEN 0 ELSE NalTypeOf(c, following[1])
         IN  (IF should_skip_nal(c, nal_type) THEN <<>> ELSE START_CODE \o Head(rs))
             \o RefScan(Tail(rs), tl, c)

\* the tail declares a length (its 4-byte field is there) that overruns the buffer
TailOverruns(u) == Len(u.tail) >= 4

\* the NAL type the converter sees for the record cut short
TailNalType(u, c) == IF Len(u.tail) > 4 THEN NalTypeOf(c, u.tail[5]) ELSE 0

\* C1: convert_to_annex_b(data, codec) equals the reference scan: START_CODE and
\* payload of every complete record of unskippable type, in input order, nothing
\* for skippable records, and nothing once fewer than 4 bytes remain.
C1_EqualsReferenceScan ==
    ConvDone => converted = RefScan(au.records, au.tail, codec)

\* C2: when a record's declared length overruns the input, nothing is emitted for
\* it (no start code, no payload) and the scan stops: the output is exactly the
\* conversion of the records that were complete before it.
C2_OverrunEmitsNothing ==
    (ConvDone /\ TailOverruns(au))
        => converted = convert_to_annex_b(EncodeRecords(au.records), codec)

\* What the code does instead: a record cut short whose type is not skippable
\* leaves a start code with no payload at the end of the output.
ConvOutputOfCode ==
    ConvDone =>
        converted = RefScan(au.records, au.tail, codec)
            \o (IF TailOverruns(au) /\ ~should_skip_nal(codec, TailNalType(au, codec))
                THEN START_CODE ELSE <<>>)

\* the stepped loop and the function agree
ConvLoopAgrees == ConvDone => converted = convert_to_annex_b(data, codec)

----------------------------------------------------------------------------
(* Claims about ParameterSets::parse *)

\* START_CODE + payload of every payload of ps, in order
RECURSIVE WithStartCodes(_)
WithStartCodes(ps) ==
    IF ps = <<>> THEN <<>> ELSE START_CODE \o Head(ps) \o WithStartCodes(Tail(ps))

\* C7: for a well-formed AVC record, parse under H264 returns sps = START_CODE +
\* payload of each of its (count byte & 0x1F) SPS entries in order, pps = the same
\* for its PPS entries, and vps empty. (A record that declares no SPS or no PPS
\* entry has no such bundle: parse fails on it.)
C7_AvccParsesWellFormed ==
    (ParseDone /\ pcodec = "H264" /\ Complete) =>
        IF desc.rec.sps # <<>> /\ desc.rec.pps # <<>>
        THEN presult = [kind |-> "ok", vps |-> <<>>,
                        sps |-> WithStartCodes(desc.rec.sps),
                        pps |-> WithStartCodes(desc.rec.pps)]
        ELSE presult.kind = "err"

\* a record with the reserved bits set in the SPS count byte, two SPS entries
\* and two PPS entries of different lengths, parsed whole
C7_Witness ==
    /\ ParseDone /\ pcodec = "H264" /\ Complete
    /\ desc.rec.hi = 224
    /\ desc.rec.sps = <<<<104, 206>>, <<103>>>>
    /\ desc.rec.pps = <<<<>>, <<103>>>>
    /\ presult.kind = "ok"

\* C8: parse under H264 returns a bundle or an error on every input, never reads
\* out of range, and fails as a whole (no partial bundle) whenever the input ends
\* before a header, count, length or payload it declares.
C8_AvccFailsWholeOnTruncation ==
    (ParseDone /\ pcodec = "H264") =>
        /\ presult.kind \in {"ok", "err"}
        /\ ~Complete => presult.kind = "err"

\* the input ends inside the second PPS payload, after complete SPS and PPS entries
C8_Witness ==
    /\ ParseDone /\ pcodec = "H264"
    /\ desc.rec.sps = <<<<103>>>>
    /\ desc.rec.pps = <<<<103>>, <<104, 206>>>>
    /\ desc.cut = Len(EncodeAvcc(desc.rec)) - 1
    /\ presult.kind = "err"

\* the parameter sets of type t among the first n bytes of the encoded arrays:
\* the entries of arrays of that type (low 6 bits of the header byte) whose
\* encoding ends within n bytes, with start codes, in order. `at` is the
\* offset of the array's first entry
RECURSIVE EntriesWithin(_, _, _)
EntriesWithin(ps, at, n) ==
    IF ps = <<>> \/ at + 2 + Len(Head(ps)) > n THEN <<>>
    ELSE START_CODE \o Head(ps) \o EntriesWithin(Tail(ps), at + 2 + Len(Head(ps)), n)

RECURSIVE SetsWithin(_, _, _, _)
SetsWithin(as, t, at, n) ==
    IF as = <<>> \/ at + 3 > n THEN <<>>
    ELSE (IF Head(as).type_byte % 64 = t
          THEN EntriesWithin(Head(as).nals, at + 3, n) ELSE <<>>)
         \o SetsWithin(Tail(as), t, at + Len(EncodeArray(Head(as))), n)

\* what a parse that reads exactly the complete entries of the first n bytes returns
HvccExpected(r, n) ==
    LET at == HVCC_HEADER_SIZE + 1
        v == SetsWithin(r.arrays, 32, at, n)
        s == SetsWithin(r.arrays, 33, at, n)
        p == SetsWithin(r.arrays, 34, at, n)
    IN  IF s = <<>> \/ p = <<>> THEN [kind |-> "err"]
        ELSE [kind |-> "ok", vps |-> v, sps |-> s, pps |-> p]

Matches(result, expected) ==
    IF expected.kind = "err" THEN result.kind = "err" ELSE result = expected

\* C9: when an array header or entry of an HEVC record is cut short, parse under
\* H265 returns exactly the parameter sets of the entries read completely before
\* the cut (failing if they lack an SPS or a PPS): nothing at or after the
\* truncated entry is read as a further array or appended to a buffer.
C9_HvccStopsAtTruncation ==
    (ParseDone /\ pcodec = "H265" /\ ~Complete /\ desc.cut > HVCC_HEADER_SIZE) =>
        Matches(presult, HvccExpected(desc.rec, desc.cut))

\* C10: for a well-formed HEVC record, parse under H265 appends START_CODE +
\* payload of every entry to vps, sps or pps when its array's type (header byte
\* & 0x3F) is 32, 33 or 34, in discovery order, and entries of other types to no
\* buffer. (Without an SPS or a PPS entry there is no bundle: parse fails.)
C10_HvccRoutesWellFormed ==
    (ParseDone /\ pcodec = "H265" /\ Complete) =>
        Matches(presult, HvccExpected(desc.rec, Len(EncodeHvcc(desc.rec))))

\* VPS (with the completeness bit), an ignored SEI array between, SPS with two
\* entries, PPS: all three buffers filled
C10_Witness ==
    /\ ParseDone /\ pcodec = "H265" /\ Complete
    /\ Len(desc.rec.arrays) = 3
    /\ desc.rec.arrays[1] = [type_byte |-> 160, nals |-> <<<<64>>>>]
    /\ desc.rec.arrays[2] = [type_byte |-> 33, nals |-> <<<<>>, <<66, 1>>>>]
    /\ desc.rec.arrays[3] = [type_byte |-> 34, nals |-> <<<<64>>>>]
    /\ presult = [kind |-> "ok", vps |-> <<0, 0, 0, 1, 64>>,
                  sps |-> <<0, 0, 0, 1, 0, 0, 0, 1, 66, 1>>,
                  pps |-> <<0, 0, 0, 1, 64>>]

\* an ignored array among the parsed ones: its entries are consumed, not kept
C10_WitnessIgnored ==
    /\ ParseDone /\ pcodec = "H265" /\ Complete
    /\ Len(desc.rec.arrays) = 3
    /\ desc.rec.arrays[1].type_byte = 33
    /\ desc.rec.arrays[2].type_byte = 39
    /\ desc.rec.arrays[3].type_byte = 34
    /\ presult.kind = "ok" /\ presult.vps = <<>>

\* C11: parse never returns a successful bundle that breaks the bundle
\* invariant: it fails when sps or pps ended up empty, and under H265 it fails
\* too when vps ended up empty.
C11_ParseKeepsBundleInvariant ==
    (ParseDone /\ presult.kind = "ok") =>
        /\ presult.sps # <<>> /\ presult.pps # <<>>
        /\ pcodec = "H265" => presult.vps # <<>>

\* What holds of the code: sps and pps of a returned bundle are never empty;
\* the VPS is tested by validate alone, which VideoConverter::new calls next.
ParseKeepsSpsAndPps ==
    (ParseDone /\ presult.kind = "ok") => presult.sps # <<>> /\ presult.pps # <<>>

\* C12: validate(bundle, codec) succeeds exactly when sps and pps are both
\* non-empty and, under H265, vps is non-empty too; under H264 an empty vps is
\* accepted.
C12_ValidateIffInvariant ==
    Returned("validate") =>
        LET ps == fcall.bundle
        IN  (fcall.ret[1].kind = "ok")
                <=> /\ ps.sps # <<>> /\ ps.pps # <<>>
                    /\ fcall.codec = "H265" => ps.vps # <<>>

\* an H264 bundle with sps and pps and no vps has been validated, with success
C12_Witness ==
    /\ Returned("validate") /\ fcall.codec = "H264"
    /\ fcall.bundle = [vps |-> <<>>, sps |-> <<1>>, pps |-> <<1>>]
    /\ fcall.ret[1].kind = "ok"

\* an H265 bundle with sps and pps and no vps has been validated, with failure
C12_WitnessMissingVps ==
    /\ Returned("validate") /\ fcall.codec = "H265"
    /\ fcall.bundle = [vps |-> <<>>, sps |-> <<1>>, pps |-> <<1>>]
    /\ fcall.ret[1].kind = "err"

\* C14: should_skip_nal(codec, nal_type) is true for exactly the types 6, 7, 8
\* under H264 and 32, 33, 34, 39 under H265, and false for every other u8 (1
\* and 0 among them).
C14_SkipsExactlyParameterTypes ==
    Returned("should_skip_nal") =>
        fcall.ret[1] = (fcall.nal_type \in (IF fcall.codec = "H264" THEN {6, 7, 8}
                                                ELSE {32, 33, 34, 39}))

\* the H264 SEI type has been asked and is skipped
C14_Witness ==
    /\ Returned("should_skip_nal") /\ fcall.codec = "H264" /\ fcall.nal_type = 6
    /\ fcall.ret[1] = TRUE

\* a slice type has been asked under H265 and is kept
C14_WitnessKept ==
    /\ Returned("should_skip_nal") /\ fcall.codec = "H265" /\ fcall.nal_type = 1
    /\ fcall.ret[1] = FALSE

\* C18: convert_to_annex_b terminates on every input: a pass of the loop either
\* stops the loop or moves the cursor forward by at least 4 bytes, the cursor
\* never passes the end of the input, and every byte read (length field,
\* NAL-type byte, payload) lies inside the input.
C18_ConverterTerminatesInBounds ==
    /\ [][cpc = "loop" => (cpc' = "done" \/ pos' >= pos + 4)]_vars
    /\ [](pos <= Len(data) /\ reads \subseteq 0 .. (Len(data) - 1))
    /\ <>(cpc = "done")

\* the loop has gone through two whole records and stopped inside a third whose
\* declared length overruns the input, four bytes after its start
C18_Witness ==
    /\ ConvDone /\ Len(au.records) = 2 /\ Len(au.tail) > 4
    /\ pos = Len(EncodeRecords(au.records)) + 4
    /\ pos < Len(data)

----------------------------------------------------------------------------
(* Claims about main's packet loop *)

BadPts(packet) == packet.pts = None \/ packet.pts[1] < 0

\* the last pass wrote a message
Emitted == iter.op = "pass" /\ Len(written) > iter.written_before

\* C15: a packet whose PTS is undefined or negative is rejected, never taken
\* as time zero: no message is written with a timestamp made from it, and it
\* adds no bytes to the buffer.
C15_BadPtsRejected ==
    (iter.op = "pass" /\ BadPts(iter.packet))
        => iter.contribution = None /\ ~Emitted

\* the contributions pushed after the k-th message was written and up to the
\* one written next
SincePrevious(k) ==
    SubSeq(pushed, (IF k = 1 THEN 0 ELSE written[k - 1].npushed) + 1, written[k].npushed)

\* C16: whatever the order of packets and decoder answers, every frame written
\* is the concatenation, in arrival order, of the contributions of the
\* non-empty packets processed since the frame before it; every contribution
\* is in exactly one written frame; and the buffer is empty right after a
\* frame is written.
C16_EveryContributionInOneFrame ==
    /\ \A k \in 1..Len(written) : written[k].message.data = Flatten(SincePrevious(k))
    /\ Emitted => main_frame_packets = <<>>
    /\ mpc = "done" =>
          \A i \in 1..Len(pushed) :
             Cardinality({k \in 1..Len(written) :
                 (IF k = 1 THEN 0 ELSE written[k - 1].npushed) < i
                    /\ i <= written[k].npushed}) = 1

\* What holds of the code: frames are the concatenations C16 says, the buffer
\* is empty after a frame, and the contributions not in a frame are those
\* still in the buffer; nothing writes them when the input ends.
FramesThenBuffer ==
    /\ \A k \in 1..Len(written) : written[k].message.data = Flatten(SincePrevious(k))
    /\ Emitted => main_frame_packets = <<>>
    /\ main_frame_packets =
          SubSeq(pushed,
                 (IF written = <<>> THEN 0 ELSE written[Len(written)].npushed) + 1,
                 Len(pushed))

\* C17: the parameter sets are prepended once on account of the first-packet
\* flag: the first contribution ever pushed begins with them, key frame or not,
\* packets without payload before it or not; the flag is then clear, and the
\* contribution of a later packet that is not a key frame is its converted
\* payload alone.
C17_SetsOnFirstContribution ==
    /\ first_frame <=> pushed = <<>>
    /\ (iter.op = "pass" /\ iter.contribution # None) =>
          LET annex_b == main_convert_to_annex_b(iter.packet.data[1], codec_format)
          IN  IF Len(pushed) = 1
              THEN iter.contribution[1] = sps_nals \o pps_nals \o annex_b
              ELSE ~iter.packet.key => iter.contribution[1] = annex_b

\* after a packet without payload, the first contribution came from a packet
\* that is not a key frame, and carries the sets of an AVC stream
C17_Witness ==
    /\ iter.op = "pass" /\ iter.contribution # None /\ ~iter.packet.key
    /\ Len(pushed) = 1 /\ nread = 2 /\ iter.first_before /\ ~first_frame
    /\ codec_format = "h264" /\ sps_nals # <<>> /\ pps_nals # <<>>
    /\ iter.contribution[1] =
          sps_nals \o pps_nals \o main_convert_to_annex_b(iter.packet.data[1], "h264")

\* a later packet that is not a key frame contributed its slice alone
C17_WitnessLater ==
    /\ iter.op = "pass" /\ ~iter.packet.key /\ Len(pushed) = 2
    /\ codec_format = "h264" /\ sps_nals # <<>>
    /\ iter.contribution = Some(START_CODE \o <<65>>)

----------------------------------------------------------------------------
(* Claims about the VideoConverter session *)

\* C3: over any sequence of check_timestamp calls on one session, with timestamps
\* anywhere in the u64 range, the first call succeeds whatever its value and a
\* later call fails when its timestamp is at most the one the most recent
\* successful call accepted: the accepted timestamps increase strictly.
C3_AcceptedStrictlyIncreasing ==
    call.op = "check_timestamp" =>
        IF call.before = None THEN call.result.kind = "ok"
        ELSE call.timestamp_ns <= call.before[1] => call.result.kind = "err"

\* What holds of the code: the same, for sessions that have not accepted u64::MAX.
TimestampsBelowMaxIncrease ==
    (call.op = "check_timestamp" /\ call.before # Some(U64_MAX)) =>
        C3_AcceptedStrictlyIncreasing

PayloadOf(packet) == IF packet.data = None THEN <<>> ELSE packet.data[1]

\* PTS and DTS are both there and differ
Reordered(packet) ==
    packet.pts # None /\ packet.dts # None /\ packet.pts # packet.dts

\* C4 as stated: for every access unit whose PTS differs from its DTS, whatever
\* its payload (empty and absent included) and key-frame flag, process_packet
\* fails with the reordering error and appends nothing to the buffer.
C4_ReorderedAlwaysFails ==
    (call.op = "process_packet" /\ Reordered(call.packet)) =>
        /\ call.result.kind = "err" /\ call.result.msg = "reordered"
        /\ frame_packets = call.before

\* C4 amended: for every access unit whose PTS and DTS are both defined and
\* differ, whatever its payload and key-frame flag, process_packet appends
\* nothing to the buffer; it fails with the reordering error (carrying both
\* values) when the payload is not empty, and succeeds as a no-op when the
\* payload is empty or absent.
C4_ReorderedNeverAppends ==
    (call.op = "process_packet" /\ Reordered(call.packet)) =>
        /\ frame_packets = call.before
        /\ IF PayloadOf(call.packet) # <<>>
           THEN call.result = [kind |-> "err", msg |-> "reordered",
                               pts |-> call.packet.pts[1], dts |-> call.packet.dts[1]]
           ELSE call.result.kind = "ok"

\* a key frame with a payload, PTS 1 and DTS 0, refused with a frame part buffered
C4_Witness ==
    /\ call.op = "process_packet"
    /\ call.packet = [data |-> Some(<<0, 0, 0, 1, 101>>), pts |-> Some(1),
                      dts |-> Some(0), key |-> TRUE]
    /\ call.result.kind = "err"
    /\ Len(call.before) = 1 /\ frame_packets = call.before

\* C5: a successful process_packet on a non-empty payload appends exactly one
\* entry: VPS (H265 only), SPS, PPS and then the converted payload if the packet
\* is the first one or a key frame, the converted payload alone otherwise. A call
\* on an empty or absent payload leaves the buffer unchanged.
C5_AppendsOneEntry ==
    (call.op = "process_packet" /\ call.result.kind = "ok") =>
        LET payload == PayloadOf(call.packet)
            sets == (IF codec_type = "H265" THEN parameter_sets.vps ELSE <<>>)
                        \o parameter_sets.sps \o parameter_sets.pps
            entry == (IF call.is_first \/ call.packet.key THEN sets ELSE <<>>)
                        \o convert_to_annex_b(payload, codec_type)
        IN  IF payload # <<>>
            THEN frame_packets = call.before \o <<entry>>
            ELSE frame_packets = call.before

\* an H265 session: a key frame that is not the first packet is appended, with
\* the three parameter sets before its slice, after an entry already buffered
C5_Witness ==
    /\ call.op = "process_packet" /\ call.result.kind = "ok"
    /\ codec_type = "H265"
    /\ call.packet.data = Some(<<0, 0, 0, 1, 101>>)
    /\ call.packet.key /\ ~call.is_first
    /\ Len(call.before) = 1
    /\ frame_packets[2] =
         <<0, 0, 0, 1, 64>> \o <<0, 0, 0, 1, 0, 0, 0, 1, 66, 1>> \o <<0, 0, 0, 1, 64>>
            \o <<0, 0, 0, 1, 101>>

\* a packet that is neither first nor key: the converted payload alone
C5_WitnessPlain ==
    /\ call.op = "process_packet" /\ call.result.kind = "ok"
    /\ call.packet.data = Some(<<0, 0, 0, 1, 101>>)
    /\ ~call.packet.key /\ ~call.is_first
    /\ frame_packets = call.before \o <<<<0, 0, 0, 1, 101>>>>

\* the offset of entry i in the concatenation of the entries of fp
RECURSIVE OffsetOf(_, _)
OffsetOf(fp, i) == IF i = 1 THEN 0 ELSE OffsetOf(fp, i - 1) + Len(fp[i - 1])

\* C6: take_frame_data returns the buffered entries concatenated in append
\* order (each entry lies whole at the offset the entries before it fill, and
\* nothing follows the last) and leaves the buffer empty; with nothing buffered,
\* also right after a take, it returns an empty buffer.
C6_TakeConcatenatesAndClears ==
    call.op = "take_frame_data" =>
        LET fp == call.before
            n == Len(fp)
        IN  /\ frame_packets = <<>>
            /\ Len(call.ret) = OffsetOf(fp, n + 1)
            /\ \A i \in 1..n :
                 SubSeq(call.ret, OffsetOf(fp, i) + 1, OffsetOf(fp, i + 1)) = fp[i]
            /\ n = 0 => call.ret = <<>>

\* two different entries taken as one frame
C6_Witness ==
    /\ call.op = "take_frame_data"
    /\ Len(call.before) = 2 /\ call.before[1] # call.before[2]
    /\ call.before[1] # <<>> /\ call.before[2] # <<>>
    /\ call.ret = call.before[1] \o call.before[2]
    /\ frame_packets = <<>>

\* a take right after a take
C6_WitnessTwice ==
    /\ call.op = "take_frame_data" /\ call.after = "take_frame_data"
    /\ call.before = <<>> /\ call.ret = <<>>

====
